---------------------------- MODULE Spec2Model ----------------------------
(***************************************************************************)
(* A model of lunatic-process: spawn_wasm (crates/lunatic-process/src/     *)
(* wasm.rs) and the wasmtime runtime wrapper (crates/lunatic-process/src/  *)
(* runtimes/wasmtime.rs).                                                  *)
(*                                                                         *)
(* A process is a background task that wraps the future                    *)
(* `instance.call(function, params)`.  The task alternates between its     *)
(* signal mailbox and the future: whenever the future is suspended (fuel   *)
(* exhaustion inside the call, or the explicit yield_now of spawn_wasm     *)
(* when the call itself spawns a linked child) the task first drains its   *)
(* signal mailbox and only then polls the future again.                    *)
(*                                                                         *)
(* spawn_wasm is executed by a running process (the host call behind the   *)
(* guest's spawn): the `link` argument, when present, names the calling    *)
(* process itself ("Send signal to itself", "Suspend itself", wasm.rs      *)
(* 83-86).  Process 1 is the root process, spawned by the embedder with    *)
(* link = None before the first state.                                     *)
(***************************************************************************)
EXTENDS Integers, Sequences, FiniteSets, TLC

(* ------------------------------ bounds -------------------------------- *)
\* Number of process identities (Uuid::new_v4 yields a fresh one per spawn).
MaxProcs == 2
\* Largest finite max_fuel a configuration may carry.
MaxFuel == 2
\* Instructions an entry function of kind "ret"/"trap" executes before it
\* returns/traps; also the cap on the work of a process with unlimited fuel.
MaxWork == 2
\* Kill signals the environment sends in one run.
MaxKills == 1

(* ----------------------------- constants ------------------------------ *)
\* config::UNIT_OF_COMPUTE_IN_INSTRUCTIONS, scaled down: the fuel injected at
\* every out-of-fuel suspension.
UNIT_OF_COMPUTE_IN_INSTRUCTIONS == 2
\* u64::MAX, as the largest integer the checker represents.
U64_MAX == 2147483647

Procs == 1..MaxProcs
Root == 1

\* Option<T>
None == <<>>
Some(x) == <<x>>

\* Option<i64> link tags.
Tags == {None, Some(1)}
\* Option<u64> max_fuel of a configuration.
FuelConfigs == {None} \cup {Some(f) : f \in 0..MaxFuel}
\* Entry names asked for; the module exports only "start".
Exports == {"start"}
EntryNames == {"start", "missing"}
\* What the guest's entry function does after its first MaxWork
\* instructions: return, trap, or keep looping forever.  It shows when the
\* guest gets there ("unknown" before).
Kinds == {"ret", "trap", "loop"}

VARIABLES
    status,     \* per id: "none", "spawning", "failed", "dropped", "running", "terminated"
    chan,       \* per id: the signal channel: "none", "open", "closed"
    mailbox,    \* per id: the signals queued in the unbounded channel, oldest first
    links,      \* per id: the links the task has recorded, a set of <<process, tag>>
    poll,       \* per id: TRUE while the task is inside a poll of its future
    fpc,        \* per id: where the future `instance.call` stands
    fname,      \* per id: the entry name given to spawn_wasm
    kind,       \* per id: the guest's entry function behaviour
    maxFuel,    \* per id: config.get_max_fuel()
    fuel,       \* per id: fuel left in the store
    inj,        \* per id: fuel injections left (injection_count)
    work,       \* per id: instructions the instance has executed
    slice,      \* per id: instructions executed since the last suspension
    mem,        \* per id: the instance's linear memory (abstracted to a cell)
    result,     \* per id: how the task ended
    parent,     \* per id: the process that ran spawn_wasm for it (0: the embedder)
    linkArg,    \* per id: the `link` argument of its spawn_wasm
    spc,        \* per id: where its spawn_wasm stands
    exposed,    \* ids whose Process Handle was returned or sent to anyone
    kills,      \* Kill signals sent by the environment so far
    notes,      \* termination notifications delivered: records from, to, tag, reason, n
    initCount,  \* per id: calls of ProcessState::initialize
    panicked,   \* TRUE once an `expect` of spawn_wasm has fired
    module      \* the shared WasmtimeCompiledModule: the Arc's content and its count

vars == <<status, chan, mailbox, links, poll, fpc, fname, kind, maxFuel, fuel,
          inj, work, slice, mem, result, parent, linkArg, spc, exposed, kills,
          notes, initCount, panicked, module>>

(* ------------------------------ signals ------------------------------- *)
Kill == [type |-> "Kill", proc |-> 0, tag |-> None, reason |-> "-"]
Link(tag, p) == [type |-> "Link", proc |-> p, tag |-> tag, reason |-> "-"]
LinkDied(p, tag, reason) == [type |-> "LinkDied", proc |-> p, tag |-> tag, reason |-> reason]


(* ------------------------------ helpers ------------------------------- *)
\* HashMap::insert on the links map: one entry per linked process.
InsertLink(ls, q, tag) == {l \in ls : l[1] # q} \cup {<<q, tag>>}

LinkedProcs(p) == {l[1] : l \in links[p]}

TagOf(p, q) == (CHOOSE l \in links[p] : l[1] = q)[2]

\* Mutants of FuelBudget: the configured maximum is ignored; one injection
\* too many is granted; no limit is taken for no fuel.
FuelBudgetIgnored(mf) == U64_MAX

FuelBudgetOffByOne(mf) == IF mf = None THEN U64_MAX ELSE mf[1] + 1

FuelBudgetNoneZero(mf) == IF mf = None THEN 0 ELSE mf[1]

\* The injection count installed by instantiate: max_fuel, or u64::MAX.
FuelBudget(mf) == IF mf = None THEN U64_MAX ELSE mf[1]

\* Mutant of GetFunc: any name resolves to some function.
GetFuncAny(name) == TRUE

\* instance.get_func(store, function): is the name among the exports?
GetFunc(name) == name \in Exports

\* Mutant of CallOutcome: the error of call_async is dropped.
CallOutcomeSwallowed(k) == "ok"

\* What `call` resolves to once the guest's entry function has ended.
CallOutcome(k) == IF k = "ret" THEN "ok" ELSE "trap"

\* Arc::clone (d > 0) and drop (d < 0) of handles to the compiled module: the
\* count moves, the content (source, instance_pre) is behind a shared borrow.
ModuleRefs(m, d) == [m EXCEPT !.strong = @ + d]

\* `if let Some((tag, process)) = link`
HasLink(l) == l # None

\* The guest still has instructions to execute.
WantsToRun(p) == kind[p] = "loop" \/ work[p] < MaxWork

\* Spawns whose future lives inside p's future: dropped with it.
DroppedBy(p) == {c \in Procs : parent[c] = p /\ status[c] = "spawning"}

\* The least unused identity.
FreshId(c) == status[c] = "none" /\ \A d \in Procs : d < c => status[d] # "none"

(* -------------------------------- Init -------------------------------- *)
Init ==
    \E mf \in FuelConfigs, fn \in EntryNames :
        /\ status = [p \in Procs |-> IF p = Root THEN "running" ELSE "none"]
        /\ chan = [p \in Procs |-> IF p = Root THEN "open" ELSE "none"]
        /\ mailbox = [p \in Procs |-> <<>>]
        /\ links = [p \in Procs |-> {}]
        /\ poll = [p \in Procs |-> FALSE]
        /\ fpc = [p \in Procs |-> IF p = Root THEN "lookup" ELSE "none"]
        /\ fname = [p \in Procs |-> IF p = Root THEN fn ELSE "start"]
        /\ kind = [p \in Procs |-> "unknown"]
        /\ maxFuel = [p \in Procs |-> IF p = Root THEN mf ELSE None]
        /\ fuel = [p \in Procs |-> 0]
        /\ inj = [p \in Procs |-> IF p = Root THEN FuelBudget(mf) ELSE 0]
        /\ work = [p \in Procs |-> 0]
        /\ slice = [p \in Procs |-> 0]
        /\ mem = [p \in Procs |-> 0]
        /\ result = [p \in Procs |-> "none"]
        /\ parent = [p \in Procs |-> 0]
        /\ linkArg = [p \in Procs |-> None]
        /\ spc = [p \in Procs |-> IF p = Root THEN "done" ELSE "none"]
        /\ exposed = {Root}
        /\ kills = 0
        /\ notes = {}
        /\ initCount = [p \in Procs |-> IF p = Root THEN 1 ELSE 0]
        /\ panicked = FALSE
        /\ module = [source |-> "wasm", instance_pre |-> 0, strong |-> 1]

(* ------------------------- the background task ------------------------ *)
\* The task ends: every process it has recorded a link to, and whose channel
\* is still open, is sent one LinkDied carrying the link's tag and the reason.
\* The future is dropped with the task, and with it the Instance (its store,
\* fuel meter and memory) and any spawn in progress.
Terminate(p, reason) ==
    LET gone == {p} \cup DroppedBy(p)
        told == {q \in Procs \ gone : chan[q] = "open" /\ q \in LinkedProcs(p)}
    IN  /\ status' = [q \in Procs |-> IF q = p THEN "terminated"
                                      ELSE IF q \in gone THEN "dropped" ELSE status[q]]
        /\ chan' = [q \in Procs |-> IF q \in gone THEN "closed" ELSE chan[q]]
        /\ mailbox' = [q \in Procs |->
                          IF q \in gone THEN <<>>
                          ELSE IF q \in told
                               THEN Append(mailbox[q], LinkDied(p, TagOf(p, q), reason))
                               ELSE mailbox[q]]
        /\ result' = [result EXCEPT ![p] = reason]
        /\ notes' = notes \cup
                      {[from |-> p, to |-> q, tag |-> TagOf(p, q), reason |-> reason,
                        n |-> 1 + Cardinality({x \in notes : x.from = p /\ x.to = q})]
                          : q \in told}
        /\ poll' = [poll EXCEPT ![p] = FALSE]
        /\ fpc' = [fpc EXCEPT ![p] = "done"]
        /\ fuel' = [q \in Procs |-> IF q \in gone THEN 0 ELSE fuel[q]]
        /\ inj' = [q \in Procs |-> IF q \in gone THEN 0 ELSE inj[q]]
        /\ work' = [q \in Procs |-> IF q \in gone THEN 0 ELSE work[q]]
        /\ slice' = [q \in Procs |-> IF q \in gone THEN 0 ELSE slice[q]]
        /\ mem' = [q \in Procs |-> IF q \in gone THEN 0 ELSE mem[q]]
        /\ kind' = [q \in Procs |-> IF q \in gone THEN "unknown" ELSE kind[q]]
        /\ maxFuel' = [q \in Procs |-> IF q \in gone THEN None ELSE maxFuel[q]]
        /\ module' = ModuleRefs(module, 0 - (1 + 2 * Cardinality(DroppedBy(p))))

\* The task takes the oldest signal of its mailbox (signals come first).
HandleSignal(p) ==
    /\ status[p] = "running" /\ ~poll[p] /\ mailbox[p] # <<>>
    /\ LET s == Head(mailbox[p]) IN
        CASE s.type = "Kill" ->
                /\ Terminate(p, "killed")
                /\ UNCHANGED <<links, fname, parent, linkArg, spc, exposed, kills,
                               initCount, panicked>>
          [] s.type = "Link" ->
                /\ links' = [links EXCEPT ![p] = InsertLink(links[p], s.proc, s.tag)]
                /\ mailbox' = [mailbox EXCEPT ![p] = Tail(mailbox[p])]
                /\ UNCHANGED <<status, chan, poll, fpc, fname, kind, maxFuel, fuel, inj,
                               work, slice, mem, result, parent, linkArg, spc, exposed,
                               kills, notes, initCount, panicked, module>>
          [] OTHER ->
                /\ mailbox' = [mailbox EXCEPT ![p] = Tail(mailbox[p])]
                /\ UNCHANGED <<status, chan, links, poll, fpc, fname, kind, maxFuel, fuel,
                               inj, work, slice, mem, result, parent, linkArg, spc,
                               exposed, kills, notes, initCount, panicked, module>>

\* No signal is waiting: the task polls its future.  A future suspended by
\* fuel exhaustion receives its injection of fuel as it resumes.
PollFut(p) ==
    /\ status[p] = "running" /\ ~poll[p] /\ mailbox[p] = <<>>
    /\ (fpc[p] = "inject" /\ maxFuel[p] = None) => work[p] < MaxWork
    /\ poll' = [poll EXCEPT ![p] = TRUE]
    /\ IF fpc[p] = "inject"
       THEN /\ fuel' = [fuel EXCEPT ![p] = fuel[p] + UNIT_OF_COMPUTE_IN_INSTRUCTIONS]
            /\ slice' = [slice EXCEPT ![p] = 0]
            /\ fpc' = [fpc EXCEPT ![p] = "exec"]
       ELSE UNCHANGED <<fuel, slice, fpc>>
    /\ UNCHANGED <<status, chan, mailbox, links, fname, kind, maxFuel, inj, work, mem,
                   result, parent, linkArg, spc, exposed, kills, notes, initCount,
                   panicked, module>>

(* --------------------------- instance.call ---------------------------- *)
\* The lookup of the entry name; a missing name ends the call with an error.
CallLookup(p) ==
    /\ status[p] = "running" /\ poll[p] /\ fpc[p] = "lookup"
    /\ IF GetFunc(fname[p])
       THEN /\ fpc' = [fpc EXCEPT ![p] = "exec"]
            /\ UNCHANGED <<status, chan, mailbox, result, notes, poll, kind, maxFuel,
                           fuel, inj, work, slice, mem, module>>
       ELSE Terminate(p, "notfound")
    /\ UNCHANGED <<links, fname, parent, linkArg, spc, exposed, kills, initCount,
                   panicked>>

\* Mutant of Exec: the instances write to one memory (a store shared by all
\* instances of the module).
ExecSharedMemory(p) ==
    /\ status[p] = "running" /\ poll[p] /\ fpc[p] = "exec"
    /\ fuel[p] > 0 /\ WantsToRun(p)
    /\ fuel' = [fuel EXCEPT ![p] = fuel[p] - 1]
    /\ work' = [work EXCEPT ![p] = work[p] + 1]
    /\ slice' = [slice EXCEPT ![p] = slice[p] + 1]
    /\ mem' = [q \in Procs |-> IF status[q] = "running" THEN 1 - mem[p] ELSE mem[q]]
    /\ IF work[p] + 1 = MaxWork
       THEN \E k \in Kinds : kind' = [kind EXCEPT ![p] = k]
       ELSE UNCHANGED kind
    /\ UNCHANGED <<status, chan, mailbox, links, poll, fpc, fname, maxFuel, inj,
                   result, parent, linkArg, spc, exposed, kills, notes, initCount,
                   panicked, module>>

\* One instruction of the guest: it consumes one unit of fuel.
Exec(p) ==
    /\ status[p] = "running" /\ poll[p] /\ fpc[p] = "exec"
    /\ fuel[p] > 0 /\ WantsToRun(p)
    /\ fuel' = [fuel EXCEPT ![p] = fuel[p] - 1]
    /\ work' = [work EXCEPT ![p] = work[p] + 1]
    /\ slice' = [slice EXCEPT ![p] = slice[p] + 1]
    /\ mem' = [mem EXCEPT ![p] = 1 - mem[p]]
    /\ IF work[p] + 1 = MaxWork
       THEN \E k \in Kinds : kind' = [kind EXCEPT ![p] = k]
       ELSE UNCHANGED kind
    /\ UNCHANGED <<status, chan, mailbox, links, poll, fpc, fname, maxFuel, inj,
                   result, parent, linkArg, spc, exposed, kills, notes, initCount,
                   panicked, module>>

\* Mutant of OutOfGas: fuel is added on the spot and the call goes on without
\* a suspension (no control is returned to the task).
OutOfGasNoYield(p) ==
    /\ status[p] = "running" /\ poll[p] /\ fpc[p] = "exec"
    /\ fuel[p] = 0 /\ WantsToRun(p)
    /\ maxFuel[p] = None => work[p] < MaxWork + UNIT_OF_COMPUTE_IN_INSTRUCTIONS
    /\ IF inj[p] = 0
       THEN Terminate(p, "oof")
       ELSE /\ inj' = [inj EXCEPT ![p] = inj[p] - 1]
            /\ fuel' = [fuel EXCEPT ![p] = UNIT_OF_COMPUTE_IN_INSTRUCTIONS]
            /\ UNCHANGED <<status, chan, mailbox, result, notes, kind, maxFuel, poll,
                           fpc, work, slice, mem, module>>
    /\ UNCHANGED <<links, fname, parent, linkArg, spc, exposed, kills, initCount,
                   panicked>>

\* The store is out of fuel: with injections left the call is suspended
\* (and resumed with fresh fuel), with none left it traps.
OutOfGas(p) ==
    /\ status[p] = "running" /\ poll[p] /\ fpc[p] = "exec"
    /\ fuel[p] = 0 /\ WantsToRun(p)
    /\ IF inj[p] = 0
       THEN Terminate(p, "oof")
       ELSE /\ inj' = [inj EXCEPT ![p] = inj[p] - 1]
            /\ poll' = [poll EXCEPT ![p] = FALSE]
            /\ fpc' = [fpc EXCEPT ![p] = "inject"]
            /\ UNCHANGED <<status, chan, mailbox, result, notes, kind, maxFuel, fuel,
                           work, slice, mem, module>>
    /\ UNCHANGED <<links, fname, parent, linkArg, spc, exposed, kills, initCount,
                   panicked>>

\* The entry function ends: `call` resolves and the task ends with it.
Finish(p) ==
    /\ status[p] = "running" /\ poll[p] /\ fpc[p] = "exec"
    /\ ~WantsToRun(p)
    /\ Terminate(p, CallOutcome(kind[p]))
    /\ UNCHANGED <<links, fname, parent, linkArg, spc, exposed, kills, initCount,
                   panicked>>

(* ----------------------------- spawn_wasm ----------------------------- *)
\* The processes whose guest code calls spawn.
Spawners == {Root}

\* spawn_wasm runs inside the future of the calling process p (a host call of
\* its guest code): lines 40-51, a fresh id, the signal channel and message
\* mailbox, and S::new, which may fail.
SpawnCreate(p, c) ==
    /\ p \in Spawners
    /\ status[p] = "running" /\ poll[p] /\ fpc[p] = "exec" /\ fuel[p] > 0
    /\ FreshId(c)
    /\ \E l \in {None} \cup {Some(<<t, p>>) : t \in Tags},
          fn \in EntryNames, ok \in BOOLEAN :
        /\ parent' = [parent EXCEPT ![c] = p]
        /\ linkArg' = [linkArg EXCEPT ![c] = l]
        /\ fname' = [fname EXCEPT ![c] = fn]
        /\ IF ok
           THEN /\ status' = [status EXCEPT ![c] = "spawning"]
                /\ chan' = [chan EXCEPT ![c] = "open"]
                /\ spc' = [spc EXCEPT ![c] = "instantiate"]
                /\ fpc' = [fpc EXCEPT ![p] = "spawn"]
                /\ module' = ModuleRefs(module, 2)
           ELSE /\ status' = [status EXCEPT ![c] = "failed"]
                /\ chan' = [chan EXCEPT ![c] = "closed"]
                /\ spc' = [spc EXCEPT ![c] = "failed_new"]
                /\ UNCHANGED <<fpc, module>>
    /\ UNCHANGED <<mailbox, links, poll, kind, maxFuel, fuel, inj, work, slice, mem,
                   result, exposed, kills, notes, initCount, panicked>>

\* The caller's future is being polled and its spawn of c stands at `at`.
SpawnAt(c, at) ==
    /\ status[c] = "spawning" /\ spc[c] = at
    /\ parent[c] \in Procs /\ status[parent[c]] = "running" /\ poll[parent[c]]

\* Mutant of SpawnInstantiate: the Link signal for the linked process is sent
\* before the instance exists.
SpawnInstantiateAfterLink(c) ==
    /\ SpawnAt(c, "instantiate")
    /\ \E mf \in FuelConfigs, ok \in BOOLEAN :
        /\ maxFuel' = [maxFuel EXCEPT ![c] = mf]
        /\ IF HasLink(linkArg[c])
           THEN /\ mailbox' = [mailbox EXCEPT ![linkArg[c][1][2]] =
                                  Append(@, Link(None, c))]
                /\ exposed' = exposed \cup {c}
           ELSE UNCHANGED <<mailbox, exposed>>
        /\ IF ok
           THEN /\ inj' = [inj EXCEPT ![c] = FuelBudget(mf)]
                /\ fuel' = [fuel EXCEPT ![c] = 0]
                /\ initCount' = [initCount EXCEPT ![c] = initCount[c] + 1]
                /\ spc' = [spc EXCEPT ![c] = "link"]
                /\ mem' = [mem EXCEPT ![c] = module.instance_pre]
                /\ UNCHANGED <<status, chan, fpc, module>>
           ELSE /\ status' = [status EXCEPT ![c] = "failed"]
                /\ chan' = [chan EXCEPT ![c] = "closed"]
                /\ spc' = [spc EXCEPT ![c] = "failed_inst"]
                /\ fpc' = [fpc EXCEPT ![parent[c]] = "exec"]
                /\ module' = ModuleRefs(module, 0 - 2)
                /\ UNCHANGED <<inj, fuel, initCount, mem>>
    /\ UNCHANGED <<links, poll, fname, kind, work, slice, result, parent, linkArg,
                   kills, notes, panicked>>

\* Mutant of SpawnInstantiate: the initialize hook is called before the
\* instance is created.
SpawnInstantiateInitFirst(c) ==
    /\ SpawnAt(c, "instantiate")
    /\ \E mf \in FuelConfigs, ok \in BOOLEAN :
        /\ maxFuel' = [maxFuel EXCEPT ![c] = mf]
        /\ initCount' = [initCount EXCEPT ![c] = initCount[c] + 1]
        /\ IF ok
           THEN /\ inj' = [inj EXCEPT ![c] = FuelBudget(mf)]
                /\ fuel' = [fuel EXCEPT ![c] = 0]
                /\ spc' = [spc EXCEPT ![c] = "link"]
                /\ mem' = [mem EXCEPT ![c] = module.instance_pre]
                /\ UNCHANGED <<status, chan, fpc, module>>
           ELSE /\ status' = [status EXCEPT ![c] = "failed"]
                /\ chan' = [chan EXCEPT ![c] = "closed"]
                /\ spc' = [spc EXCEPT ![c] = "failed_inst"]
                /\ fpc' = [fpc EXCEPT ![parent[c]] = "exec"]
                /\ module' = ModuleRefs(module, 0 - 2)
                /\ UNCHANGED <<inj, fuel, mem>>
    /\ UNCHANGED <<mailbox, links, poll, fname, kind, work, slice, result,
                   parent, linkArg, exposed, kills, notes, panicked>>

\* Line 53, runtime.instantiate: the store gets its fuel budget, the instance
\* is created (which may fail) and the state's initialize hook is called.
SpawnInstantiate(c) ==
    /\ SpawnAt(c, "instantiate")
    /\ \E mf \in FuelConfigs, ok \in BOOLEAN :
        /\ maxFuel' = [maxFuel EXCEPT ![c] = mf]
        /\ IF ok
           THEN /\ inj' = [inj EXCEPT ![c] = FuelBudget(mf)]
                /\ fuel' = [fuel EXCEPT ![c] = 0]
                /\ initCount' = [initCount EXCEPT ![c] = initCount[c] + 1]
                /\ spc' = [spc EXCEPT ![c] = "link"]
                /\ mem' = [mem EXCEPT ![c] = module.instance_pre]
                /\ UNCHANGED <<status, chan, fpc, module>>
           ELSE /\ status' = [status EXCEPT ![c] = "failed"]
                /\ chan' = [chan EXCEPT ![c] = "closed"]
                /\ spc' = [spc EXCEPT ![c] = "failed_inst"]
                /\ fpc' = [fpc EXCEPT ![parent[c]] = "exec"]
                /\ module' = ModuleRefs(module, 0 - 2)
                /\ UNCHANGED <<inj, fuel, initCount, mem>>
    /\ UNCHANGED <<mailbox, links, poll, fname, kind, work, slice, result,
                   parent, linkArg, exposed, kills, notes, panicked>>

\* Mutant of SpawnLinkParent: the Link signal for the linked process is
\* never sent.
SpawnLinkParentForgotten(c) ==
    /\ SpawnAt(c, "link")
    /\ spc' = [spc EXCEPT ![c] = IF HasLink(linkArg[c]) THEN "yield" ELSE "spawn"]
    /\ UNCHANGED <<status, chan, mailbox, links, poll, fpc, fname, kind, maxFuel, fuel,
                   inj, work, slice, mem, result, parent, linkArg, exposed, kills, notes,
                   initCount, panicked, module>>

\* Mutant of SpawnLinkParent: the caller is sent a Link signal whether or not
\* a link was asked for.
SpawnLinkParentAlways(c) ==
    /\ SpawnAt(c, "link")
    /\ mailbox' = [mailbox EXCEPT ![parent[c]] = Append(@, Link(None, c))]
    /\ exposed' = exposed \cup {c}
    /\ spc' = [spc EXCEPT ![c] = IF HasLink(linkArg[c]) THEN "yield" ELSE "spawn"]
    /\ UNCHANGED <<status, chan, links, poll, fpc, fname, kind, maxFuel, fuel, inj, work,
                   slice, mem, result, parent, linkArg, kills, notes, initCount,
                   panicked, module>>

\* Mutant of SpawnLinkParent: the Link signal is put at the front of the
\* linked process's queue.
SpawnLinkParentJumpsQueue(c) ==
    /\ SpawnAt(c, "link")
    /\ IF HasLink(linkArg[c])
       THEN /\ mailbox' = [mailbox EXCEPT ![linkArg[c][1][2]] = <<Link(None, c)>> \o @]
            /\ exposed' = exposed \cup {c}
            /\ spc' = [spc EXCEPT ![c] = "yield"]
       ELSE /\ spc' = [spc EXCEPT ![c] = "spawn"]
            /\ UNCHANGED <<mailbox, exposed>>
    /\ UNCHANGED <<status, chan, links, poll, fpc, fname, kind, maxFuel, fuel, inj, work,
                   slice, mem, result, parent, linkArg, kills, notes, initCount,
                   panicked, module>>

\* Mutant of SpawnLinkParent: the two sends are swapped, the child's Link
\* signal goes out first.
SpawnLinkParentChildFirst(c) ==
    /\ SpawnAt(c, "link")
    /\ IF HasLink(linkArg[c])
       THEN /\ mailbox' = [mailbox EXCEPT ![c] =
                              Append(@, Link(linkArg[c][1][1], linkArg[c][1][2]))]
            /\ spc' = [spc EXCEPT ![c] = "yield"]
       ELSE /\ spc' = [spc EXCEPT ![c] = "spawn"]
            /\ UNCHANGED mailbox
    /\ UNCHANGED <<status, chan, links, poll, fpc, fname, kind, maxFuel, fuel, inj, work,
                   slice, mem, result, parent, linkArg, exposed, kills, notes, initCount,
                   panicked, module>>

\* Lines 82-84: with a link, a Link signal naming the child is sent to the
\* linked process; without one the spawn goes straight to line 96.
SpawnLinkParent(c) ==
    /\ SpawnAt(c, "link")
    /\ IF HasLink(linkArg[c])
       THEN LET q == linkArg[c][1][2] IN
            /\ mailbox' = [mailbox EXCEPT ![q] =
                              IF chan[q] = "open"
                              THEN Append(mailbox[q], Link(None, c)) ELSE mailbox[q]]
            /\ exposed' = exposed \cup {c}
            /\ spc' = [spc EXCEPT ![c] = "yield"]
       ELSE /\ spc' = [spc EXCEPT ![c] = "spawn"]
            /\ UNCHANGED <<mailbox, exposed>>
    /\ UNCHANGED <<status, chan, links, poll, fpc, fname, kind, maxFuel, fuel, inj, work,
                   slice, mem, result, parent, linkArg, kills, notes, initCount,
                   panicked, module>>

\* Mutant of SpawnYield: the spawn goes on without suspending the caller.
SpawnYieldSkipped(c) ==
    /\ SpawnAt(c, "yield")
    /\ spc' = [spc EXCEPT ![c] = "resume"]
    /\ UNCHANGED <<status, chan, mailbox, links, poll, fpc, fname, kind, maxFuel, fuel,
                   inj, work, slice, mem, result, parent, linkArg, exposed, kills, notes,
                   initCount, panicked, module>>

\* Mutant of SpawnYield: the receiving end of the child's channel does not
\* outlive the suspension.
SpawnYieldClosesChannel(c) ==
    /\ SpawnAt(c, "yield")
    /\ poll' = [poll EXCEPT ![parent[c]] = FALSE]
    /\ chan' = [chan EXCEPT ![c] = "closed"]
    /\ spc' = [spc EXCEPT ![c] = "resume"]
    /\ UNCHANGED <<status, mailbox, links, fpc, fname, kind, maxFuel, fuel, inj,
                   work, slice, mem, result, parent, linkArg, exposed, kills, notes,
                   initCount, panicked, module>>

\* Line 86, yield_now().await: the caller's future returns Pending once, so
\* the caller's task is back at its signal mailbox.
SpawnYield(c) ==
    /\ SpawnAt(c, "yield")
    /\ poll' = [poll EXCEPT ![parent[c]] = FALSE]
    /\ spc' = [spc EXCEPT ![c] = "resume"]
    /\ UNCHANGED <<status, chan, mailbox, links, fpc, fname, kind, maxFuel, fuel, inj,
                   work, slice, mem, result, parent, linkArg, exposed, kills, notes,
                   initCount, panicked, module>>

\* Mutant of SpawnLinkChild: the child's Link signal carries no tag.
SpawnLinkChildUntagged(c) ==
    /\ SpawnAt(c, "resume")
    /\ mailbox' = [mailbox EXCEPT ![c] = Append(@, Link(None, linkArg[c][1][2]))]
    /\ spc' = [spc EXCEPT ![c] = "spawn"]
    /\ UNCHANGED <<status, chan, links, poll, fpc, fname, kind, maxFuel, fuel, inj, work,
                   slice, mem, result, parent, linkArg, exposed, kills, notes, initCount,
                   panicked, module>>

\* Mutant of SpawnLinkChild: the child's Link signal is not sent.
SpawnLinkChildForgotten(c) ==
    /\ SpawnAt(c, "resume")
    /\ spc' = [spc EXCEPT ![c] = "spawn"]
    /\ UNCHANGED <<status, chan, mailbox, links, poll, fpc, fname, kind, maxFuel, fuel,
                   inj, work, slice, mem, result, parent, linkArg, exposed, kills, notes,
                   initCount, panicked, module>>

\* Lines 88-91: the Link signal naming the linked process, with the caller's
\* tag, is put into the child's own channel; a closed channel panics.
SpawnLinkChild(c) ==
    /\ SpawnAt(c, "resume")
    /\ IF chan[c] = "open"
       THEN /\ mailbox' = [mailbox EXCEPT ![c] =
                              Append(mailbox[c], Link(linkArg[c][1][1], linkArg[c][1][2]))]
            /\ spc' = [spc EXCEPT ![c] = "spawn"]
            /\ UNCHANGED panicked
       ELSE /\ panicked' = TRUE
            /\ spc' = [spc EXCEPT ![c] = "panic"]
            /\ UNCHANGED mailbox
    /\ UNCHANGED <<status, chan, links, poll, fpc, fname, kind, maxFuel, fuel, inj, work,
                   slice, mem, result, parent, linkArg, exposed, kills, notes, initCount, module>>

\* Mutant of SpawnTask: the task is scheduled and the caller then awaits the
\* join handle before spawn_wasm returns.
SpawnTaskAwaitsChild(c) ==
    \/ /\ SpawnAt(c, "spawn")
       /\ status' = [status EXCEPT ![c] = "running"]
       /\ poll' = [poll EXCEPT ![c] = FALSE]
       /\ fpc' = [fpc EXCEPT ![c] = "lookup"]
       /\ spc' = [spc EXCEPT ![c] = "join"]
       /\ UNCHANGED <<chan, mailbox, links, fname, kind, maxFuel, fuel, inj, work,
                      slice, mem, result, parent, linkArg, exposed, kills, notes,
                      initCount, panicked, module>>
    \/ /\ status[c] = "terminated" /\ spc[c] = "join"
       /\ parent[c] \in Procs /\ status[parent[c]] = "running" /\ poll[parent[c]]
       /\ fpc' = [fpc EXCEPT ![parent[c]] = "exec"]
       /\ exposed' = exposed \cup {c}
       /\ spc' = [spc EXCEPT ![c] = "done"]
       /\ module' = ModuleRefs(module, 0 - 1)
       /\ UNCHANGED <<status, chan, mailbox, links, poll, fname, kind, maxFuel, fuel,
                      inj, work, slice, mem, result, parent, linkArg, kills, notes,
                      initCount, panicked>>

\* Mutant of SpawnTask: the entry name is looked up before the task is
\* scheduled, and a missing one makes spawn_wasm fail.
SpawnTaskChecksEntry(c) ==
    /\ SpawnAt(c, "spawn")
    /\ IF GetFunc(fname[c])
       THEN /\ status' = [status EXCEPT ![c] = "running"]
            /\ poll' = [poll EXCEPT ![c] = FALSE]
            /\ fpc' = [fpc EXCEPT ![c] = "lookup", ![parent[c]] = "exec"]
            /\ exposed' = exposed \cup {c}
            /\ spc' = [spc EXCEPT ![c] = "done"]
            /\ module' = ModuleRefs(module, 0 - 1)
            /\ UNCHANGED <<chan, mailbox>>
       ELSE /\ status' = [status EXCEPT ![c] = "failed"]
            /\ chan' = [chan EXCEPT ![c] = "closed"]
            /\ mailbox' = [mailbox EXCEPT ![c] = <<>>]
            /\ fpc' = [fpc EXCEPT ![parent[c]] = "exec"]
            /\ spc' = [spc EXCEPT ![c] = "failed_entry"]
            /\ module' = ModuleRefs(module, 0 - 2)
            /\ UNCHANGED <<poll, exposed>>
    /\ UNCHANGED <<links, fname, kind, maxFuel, fuel, inj, work, slice, mem, result,
                   parent, linkArg, kills, notes, initCount, panicked>>

\* Lines 95-97: the child's task is handed to the scheduler and the join
\* handle and the Process Handle are returned to the caller.
SpawnTask(c) ==
    /\ SpawnAt(c, "spawn")
    /\ status' = [status EXCEPT ![c] = "running"]
    /\ poll' = [poll EXCEPT ![c] = FALSE]
    /\ fpc' = [fpc EXCEPT ![c] = "lookup", ![parent[c]] = "exec"]
    /\ exposed' = exposed \cup {c}
    /\ spc' = [spc EXCEPT ![c] = "done"]
    /\ module' = ModuleRefs(module, 0 - 1)
    /\ UNCHANGED <<chan, mailbox, links, fname, kind, maxFuel, fuel, inj, work, slice,
                   mem, result, parent, linkArg, kills, notes, initCount, panicked>>

(* ---------------------------- environment ----------------------------- *)
\* Some holder of p's Process Handle sends it a Kill signal.
EnvKill(p) ==
    /\ kills < MaxKills
    /\ status[p] = "running" /\ chan[p] = "open"
    /\ mailbox' = [mailbox EXCEPT ![p] = Append(mailbox[p], Kill)]
    /\ kills' = kills + 1
    /\ UNCHANGED <<status, chan, links, poll, fpc, fname, kind, maxFuel, fuel, inj, work,
                   slice, mem, result, parent, linkArg, spc, exposed, notes, initCount,
                   panicked, module>>

(* ------------------------------ the system ---------------------------- *)
TaskStep(p) ==
    \/ HandleSignal(p)
    \/ PollFut(p)
    \/ CallLookup(p)
    \/ Exec(p)
    \/ OutOfGas(p)
    \/ Finish(p)
    \/ \E c \in Procs : SpawnCreate(p, c)
    \/ \E c \in Procs : parent[c] = p /\ SpawnInstantiate(c)
    \/ \E c \in Procs : parent[c] = p /\ SpawnLinkParent(c)
    \/ \E c \in Procs : parent[c] = p /\ SpawnYield(c)
    \/ \E c \in Procs : parent[c] = p /\ SpawnLinkChild(c)
    \/ \E c \in Procs : parent[c] = p /\ SpawnTask(c)

Next ==
    \/ \E p \in Procs : TaskStep(p)
    \/ \E p \in Procs : EnvKill(p)

Spec == Init /\ [][Next]_vars

\* The scheduler eventually runs every task that can take a step.
FairSpec == Spec /\ \A p \in Procs : WF_vars(TaskStep(p))

(* ------------------------- vocabulary of the claims ------------------- *)
\* The children of linked spawns: link = Some((tag, P)).
LinkedChildren == {c \in Procs : status[c] # "none" /\ linkArg[c] # None}

LinkTag(c) == linkArg[c][1][1]

LinkProc(c) == linkArg[c][1][2]

\* The signals of one type in a mailbox.
SignalsOf(q, type) == {mailbox[q][i] : i \in {j \in 1..Len(mailbox[q]) : mailbox[q][j].type = type}}

\* A Kill signal is queued for p.
KillPending(p) == SignalsOf(p, "Kill") # {}

\* p's task ends in this step.
Ends(p) == status[p] = "running" /\ status'[p] = "terminated"

\* The fuel the configuration grants, in injections of one unit of compute.
Granted(p) == IF maxFuel[p] = None THEN U64_MAX ELSE maxFuel[p][1]

(* ------------------------------ C1 ------------------------------------ *)
\* C1, as stated: for a spawn linked to P, in every interleaving with a Kill
\* sent to P, once the spawn is over for good (the child's task has ended, or
\* the child was dropped or never instantiated) the child has recorded a link
\* to P exactly if P has recorded a link to the child.
C1_Original ==
    \A c \in LinkedChildren :
        status[c] \in {"terminated", "dropped", "failed"} =>
            (LinkProc(c) \in LinkedProcs(c) <=> c \in LinkedProcs(LinkProc(c)))

\* C1, amended: a child that has recorded the link to P implies that P has
\* recorded the link to the child; and while P has recorded the link and the
\* child has not, the child has run no guest code: it is still being spawned,
\* was dropped with P's future, or has its Link signal first in its mailbox.
C1_LinkAtomic ==
    \A c \in LinkedChildren :
        LET P == LinkProc(c) IN
        /\ P \in LinkedProcs(c) => c \in LinkedProcs(P)
        /\ (c \in LinkedProcs(P) /\ P \notin LinkedProcs(c)) =>
              \/ status[c] \in {"spawning", "dropped"}
              \/ /\ status[c] = "running" /\ ~poll[c] /\ fpc[c] = "lookup"
                 /\ mailbox[c] # <<>>
                 /\ Head(mailbox[c]) = Link(LinkTag(c), P)

\* A Kill reached P, P had recorded the link, and the child was dropped.
C1_Witness ==
    \E c \in LinkedChildren :
        /\ status[c] = "dropped" /\ c \in LinkedProcs(LinkProc(c))
        /\ result[LinkProc(c)] = "killed"

(* ------------------------------ C2 ------------------------------------ *)
\* C2: once the spawning task has resumed after yield_now, the linked process
\* has dequeued and recorded the Link signal naming the child (so it has
\* recorded the link before the child runs), and a failure of the child is
\* delivered to the linked process unless that process has ended.
C2_ParentLinkedAfterYield ==
    \A c \in LinkedChildren :
        LET P == LinkProc(c) IN
        /\ (\/ spc[c] = "resume" /\ poll[P]
            \/ spc[c] \in {"spawn", "done"}) =>
              /\ c \in LinkedProcs(P)
              /\ \A s \in SignalsOf(P, "Link") : s.proc # c
        /\ result[c] \in {"trap", "oof", "notfound", "killed"} =>
              \/ \E n \in notes : n.from = c /\ n.to = P /\ n.reason = result[c]
              \/ status[P] = "terminated"

\* A linked child failed and the linked process was told.
C2_Witness ==
    \E c \in LinkedChildren :
        /\ result[c] \in {"trap", "oof", "notfound"}
        /\ \E n \in notes : n.from = c /\ n.to = LinkProc(c) /\ n.reason = result[c]
        /\ status[LinkProc(c)] = "running"

(* ------------------------------ C3 ------------------------------------ *)
\* C3, as stated: the link recorded by the linked process for the child and
\* the link recorded by the child for the linked process carry the same tag.
C3_SameTag ==
    \A c \in LinkedChildren :
        LET P == LinkProc(c) IN
        (c \in LinkedProcs(P) /\ P \in LinkedProcs(c)) => TagOf(P, c) = TagOf(c, P)

\* C3, amended: the Link signal sent to the linked process names the child
\* and carries no tag (None); the Link signal put into the child's mailbox
\* names the linked process and carries the tag given to spawn_wasm; each
\* side records what it was sent.
C3_TagOnChildSide ==
    \A c \in LinkedChildren :
        LET P == LinkProc(c) IN
        /\ \A s \in SignalsOf(P, "Link") : s.proc = c => s.tag = None
        /\ \A s \in SignalsOf(c, "Link") : s.proc = P /\ s.tag = LinkTag(c)
        /\ c \in LinkedProcs(P) => TagOf(P, c) = None
        /\ LinkedProcs(c) \subseteq {P}
        /\ P \in LinkedProcs(c) => TagOf(c, P) = LinkTag(c)

\* Both sides have recorded a link asked for with the tag Some(1).
C3_Witness ==
    \E c \in LinkedChildren :
        /\ LinkTag(c) = Some(1)
        /\ c \in LinkedProcs(LinkProc(c)) /\ LinkProc(c) \in LinkedProcs(c)

(* ------------------------------ C4 ------------------------------------ *)
\* C4: when S::new or instantiation fails, no task is ever scheduled for the
\* new id, its handle is neither returned nor sent to anyone, and no Link
\* signal is put into the linked process's mailbox or the child's.
C4_FailedSpawnLeavesNothing ==
    /\ [](\A c \in Procs : status[c] = "failed" =>
            /\ c \notin exposed
            /\ fpc[c] = "none" /\ result[c] = "none"
            /\ mailbox[c] = <<>>
            /\ \A q \in Procs :
                  /\ c \notin LinkedProcs(q)
                  /\ \A s \in SignalsOf(q, "Link") \cup SignalsOf(q, "LinkDied") : s.proc # c)
    /\ [][\A c \in Procs : status[c] = "failed" => status'[c] = "failed"]_vars

\* A linked spawn failed in instantiation.
C4_Witness ==
    \E c \in LinkedChildren : status[c] = "failed" /\ spc[c] = "failed_inst"

(* ------------------------------ C5 ------------------------------------ *)
\* The mailbox of q after p's task has ended with `reason`, if q is to be told.
Told(p, q, reason) == Append(mailbox[q], LinkDied(p, TagOf(p, q), reason))

\* p's entry-point call traps in this step: the guest's entry function ends
\* in a trap, or the store runs out of fuel with no injection left.
Traps(p) ==
    /\ Ends(p) /\ poll[p] /\ fpc[p] = "exec"
    /\ kind[p] = "trap" \/ WantsToRun(p)

\* C5: when the entry-point call of p traps, every process p has a link to
\* (and whose channel is open) gets exactly one LinkDied carrying the failure
\* reason, every other mailbox is left as it is, and no process is ever told
\* twice of the same termination.
C5_TrapNotifiesLinked ==
    /\ [][\A p \in Procs : Traps(p) =>
            /\ result'[p] \in {"trap", "oof"}
            /\ \A q \in Procs \ {p} :
                  mailbox'[q] = IF q \in LinkedProcs(p) /\ chan[q] = "open"
                                THEN Told(p, q, result'[p]) ELSE mailbox[q]]_vars
    /\ [](\A n \in notes : n.n = 1)

\* A linked process was told of a trap.
C5_Witness ==
    \E n \in notes : n.reason = "trap" /\ status[n.to] = "running"

(* ------------------------------ C6 ------------------------------------ *)
\* C6: when the task of a ends (return, trap or kill) and neither a nor b has
\* recorded a link to the other, no signal is added to b's mailbox; and a
\* spawn with link = None puts no Link signal into any mailbox, so the child
\* has no link with any process (but with the children it spawns linked to
\* itself).
C6_UnlinkedUntouched ==
    /\ [][\A a \in Procs : \A b \in Procs \ {a} :
            (Ends(a) /\ b \notin LinkedProcs(a) /\ a \notin LinkedProcs(b)) =>
                mailbox'[b] \in {mailbox[b], <<>>}]_vars
    /\ [][\A c \in Procs :
            (spc[c] = "link" /\ linkArg[c] = None /\ spc'[c] # "link") =>
                mailbox' = mailbox]_vars
    /\ [](\A c \in Procs : (status[c] # "none" /\ linkArg[c] = None) =>
            \A q \in Procs \ {c} :
                \/ q \in LinkedChildren /\ LinkProc(q) = c
                \/ /\ c \notin LinkedProcs(q) /\ q \notin LinkedProcs(c)
                   /\ \A s \in SignalsOf(q, "Link") : s.proc # c
                   /\ \A s \in SignalsOf(c, "Link") : s.proc # q)

\* A process spawned without a link has ended while its spawner runs on.
C6_Witness ==
    \E a \in Procs :
        /\ status[a] = "terminated" /\ linkArg[a] = None /\ parent[a] \in Procs
        /\ status[parent[a]] = "running" /\ mailbox[parent[a]] = <<>>

HasInstance(p) ==
    \/ status[p] = "running"
    \/ status[p] = "spawning" /\ spc[p] \notin {"instantiate"}

C9_UnlimitedCompletes ==
    /\ \A p \in Procs :
          (status[p] = "running" /\ maxFuel[p] = None /\ fname[p] \in Exports)
              ~> (result[p] \in {"ok", "killed"} \/ kind[p] \in {"trap", "loop"})
    /\ [][\A p \in Procs : (Ends(p) /\ kind[p] = "ret" /\ ~KillPending(p)) =>
            /\ result'[p] = "ok"
            /\ \A q \in Procs \ {p} :
                  (q \in LinkedProcs(p) /\ chan[q] = "open") =>
                      mailbox'[q] = Told(p, q, "ok")]_vars

\* A linked process was told of a success.
C9_Witness ==
    \E n \in notes : n.reason = "ok" /\ status[n.to] = "running"

(* ------------------------------ C10 ----------------------------------- *)
\* C10: a call with an entry name that is not exported ends with the
\* not-found error, and up to and including that step the instance has
\* executed nothing: no fuel was injected or consumed and the memory is as
\* instantiated.
C10_MissingEntryFails ==
    /\ [](\A p \in Procs : (status[p] = "running" /\ fname[p] \notin Exports) =>
            /\ fpc[p] = "lookup"
            /\ work[p] = 0 /\ slice[p] = 0 /\ mem[p] = 0
            /\ fuel[p] = 0 /\ inj[p] = Granted(p))
    /\ [][\A p \in Procs :
            (status[p] = "running" /\ fname[p] \notin Exports /\ poll[p]
                /\ <<status[p], fpc[p], poll[p]>>' # <<status[p], fpc[p], poll[p]>>) =>
                /\ Ends(p) /\ result'[p] = "notfound"
                /\ fuel'[p] = fuel[p] /\ mem'[p] = mem[p] /\ work'[p] = work[p]]_vars

\* A call with a missing entry name has failed.
C10_Witness ==
    \E p \in Procs : result[p] = "notfound" /\ fname[p] \notin Exports

(* ------------------------------ C11 ----------------------------------- *)
\* C11: a running task that stands at its signal mailbox with a Kill queued
\* takes nothing but signals until the Kill is reached: its future is not
\* polled again and no instruction is executed; the step that dequeues the
\* Kill ends the task with "killed"; a call never runs more than one unit of
\* compute without returning to the mailbox (limited fuel or not); and under
\* fair scheduling a process that loops forever and has a Kill queued ends.
C11_KillHonoured ==
    /\ [][\A p \in Procs :
            (status[p] = "running" /\ ~poll[p] /\ KillPending(p)) =>
                /\ ~poll'[p] /\ fpc'[p] \in {fpc[p], "done"}
                /\ status'[p] = "running" => work'[p] = work[p] /\ fuel'[p] = fuel[p]
                /\ (status'[p] = "running" /\ mailbox'[p] # mailbox[p]) =>
                      \/ mailbox'[p] = Tail(mailbox[p])
                      \/ \E s \in {mailbox'[p][Len(mailbox'[p])]} :
                            mailbox'[p] = Append(mailbox[p], s)]_vars
    /\ [][\A p \in Procs :
            (status[p] = "running" /\ ~poll[p] /\ mailbox[p] # <<>>
                /\ Head(mailbox[p]) = Kill /\ Len(mailbox'[p]) < Len(mailbox[p])) =>
                status'[p] = "terminated" /\ result'[p] = "killed"]_vars
    /\ [](\A p \in Procs : slice[p] <= UNIT_OF_COMPUTE_IN_INSTRUCTIONS)
    /\ \A p \in Procs :
          (status[p] = "running" /\ kind[p] = "loop" /\ KillPending(p))
              ~> (status[p] = "terminated")

\* A process without a fuel limit loops, is suspended by fuel exhaustion and
\* has a Kill queued behind no other signal.
C11_Witness ==
    \E p \in Procs :
        /\ status[p] = "running" /\ maxFuel[p] = None /\ kind[p] = "loop"
        /\ fpc[p] = "inject" /\ ~poll[p]
        /\ mailbox[p] # <<>> /\ Head(mailbox[p]) = Kill

(* ------------------------------ C12 ----------------------------------- *)
\* The store of p's instance: fuel meter, memory and Process State.
Store(p) == <<fuel[p], inj[p], mem[p], work[p], maxFuel[p], initCount[p]>>

\* C12: all instances come from one compiled module, and their stores are
\* disjoint: a step that changes the store of one instance, or ends its task,
\* leaves the store of every other instance as it is (but for an instance
\* that is dropped in that step with the ending task that owned it); a new
\* instance starts from the template with an empty fuel meter whatever the
\* other instances have done; and no step changes the module's source bytes
\* or its instantiation template, only the number of handles to it, which is
\* one per live Process State and one per spawn_wasm in progress.
C12_DisjointStores ==
    /\ [][\A p \in Procs : \A q \in Procs \ {p} :
            ((Store(p)' # Store(p) \/ Ends(p)) /\ status'[p] # "dropped"
                /\ HasInstance(q) /\ status'[q] # "dropped") =>
                    Store(q)' = Store(q)]_vars
    /\ [][\A c \in Procs :
            (spc[c] = "instantiate" /\ spc'[c] = "link") =>
                mem'[c] = module.instance_pre /\ fuel'[c] = 0 /\ work'[c] = 0]_vars
    /\ [][/\ module'.source = module.source
          /\ module'.instance_pre = module.instance_pre]_vars
    /\ [](module.strong = Cardinality({p \in Procs : status[p] = "running"})
                            + 2 * Cardinality({p \in Procs : status[p] = "spawning"}))

\* Two instances of the module are running and their memories and fuel
\* meters differ.
C12_Witness ==
    \E p \in Procs : \E q \in Procs \ {p} :
        /\ status[p] = "running" /\ status[q] = "running"
        /\ work[p] > 0 /\ work[q] > 0
        /\ mem[p] # mem[q] /\ fuel[p] # fuel[q]

(* ------------------------------ C13 ----------------------------------- *)
\* spawn_wasm for c hands the task to the scheduler and returns in this step.
Returns(c) == status[c] = "spawning" /\ status'[c] = "running"

\* C13: while spawn_wasm is in progress the child has run nothing of its
\* entry function (so nothing in spawn_wasm depends on it); the step that
\* schedules the child's task is the step that returns to the caller: the
\* caller's future goes on, the handle is out, and the child has not yet
\* looked up or run its entry function; and under fair scheduling a spawn
\* that has come to line 96 returns, whatever the child goes on to do.
C13_ReturnsWithoutWaiting ==
    /\ [](\A c \in Procs : status[c] = "spawning" =>
            fpc[c] = "none" /\ work[c] = 0 /\ result[c] = "none" /\ kind[c] = "unknown")
    /\ [][\A c \in Procs : Returns(c) =>
            /\ spc[c] = "spawn" /\ spc'[c] = "done"
            /\ fpc[parent[c]] = "spawn" /\ fpc'[parent[c]] = "exec"
            /\ poll'[parent[c]] /\ status'[parent[c]] = "running"
            /\ c \in exposed'
            /\ fpc'[c] = "lookup" /\ ~poll'[c] /\ work'[c] = 0]_vars
    /\ [](\A c \in Procs : (status[c] = "running" /\ parent[c] \in Procs) =>
            spc[c] = "done" /\ c \in exposed)
    /\ \A c \in Procs :
          (status[c] = "spawning" /\ spc[c] = "spawn") ~> (spc[c] = "done" /\ c \in exposed)

\* The child loops forever and is still running, while its spawner has gone
\* on and ended with success.
C13_Witness ==
    \E c \in Procs :
        /\ status[c] = "running" /\ kind[c] = "loop" /\ fpc[c] = "inject"
        /\ parent[c] \in Procs /\ result[parent[c]] = "ok"

(* ------------------------------ C14 ----------------------------------- *)
\* In P's mailbox a Kill stands before the Link signal naming c.
KillBeforeLink(P, c) ==
    \E i, j \in 1..Len(mailbox[P]) :
        i < j /\ mailbox[P][i] = Kill /\ mailbox[P][j] = Link(None, c)

\* C14: every mailbox is a queue: a step either leaves it, adds one signal
\* at its end, takes the oldest signal from its front, or empties it as the
\* channel closes; a task acts on a signal only as it takes it from the
\* front (so the signals of every sender are taken in the order they were
\* sent, whatever other senders do); a termination notice of a process never
\* stands before the Link signal that names it; and a Kill that is in the
\* linked process's mailbox before the Link signal of spawn_wasm is processed
\* first: that process ends killed without ever recording the link.
C14_FifoPerMailbox ==
    /\ [][\A q \in Procs :
            \/ mailbox'[q] = mailbox[q]
            \/ mailbox[q] # <<>> /\ mailbox'[q] = Tail(mailbox[q])
            \/ /\ Len(mailbox'[q]) = Len(mailbox[q]) + 1
               /\ SubSeq(mailbox'[q], 1, Len(mailbox[q])) = mailbox[q]
            \/ mailbox'[q] = <<>> /\ chan'[q] = "closed"]_vars
    /\ [][\A q \in Procs :
            /\ links'[q] # links[q] =>
                  /\ mailbox[q] # <<>> /\ Head(mailbox[q]).type = "Link"
                  /\ mailbox'[q] = Tail(mailbox[q])
                  /\ links'[q] = InsertLink(links[q], Head(mailbox[q]).proc,
                                             Head(mailbox[q]).tag)
            /\ (Ends(q) /\ result'[q] = "killed") =>
                  mailbox[q] # <<>> /\ Head(mailbox[q]) = Kill]_vars
    /\ [](\A q \in Procs : \A i, j \in 1..Len(mailbox[q]) :
            (i < j /\ mailbox[q][i].type = "LinkDied" /\ mailbox[q][j].type = "Link") =>
                mailbox[q][i].proc # mailbox[q][j].proc)
    /\ [][\A c \in LinkedChildren :
            KillBeforeLink(LinkProc(c), c) =>
                /\ c \notin LinkedProcs(LinkProc(c))'
                /\ \/ KillBeforeLink(LinkProc(c), c)'
                   \/ result'[LinkProc(c)] = "killed"]_vars
    /\ \A c \in Procs : \A P \in Procs :
          KillBeforeLink(P, c) ~> (result[P] = "killed" /\ c \notin LinkedProcs(P))

\* The Kill was in the linked process's mailbox before the Link signal: the
\* process was killed at the yield, has no link to the child, and the spawn
\* was dropped after its first Link signal was sent.
C14_Witness ==
    \E c \in LinkedChildren :
        /\ status[c] = "dropped" /\ spc[c] = "resume"
        /\ result[LinkProc(c)] = "killed" /\ c \notin LinkedProcs(LinkProc(c))

(* ------------------------------ C15 ----------------------------------- *)
\* C15: from its creation until its task ends (or the spawn is given up) the
\* child's channel is open, with its receiver held by the child's task; a
\* Kill can be enqueued for a running process whatever its mailbox holds; and
\* the try_send of line 90 never fails: whenever spawn_wasm goes on after the
\* yield, the child's Link signal is appended to the child's mailbox and the
\* `expect` does not fire, also when a Kill is queued for the caller.
C15_ChannelLive ==
    /\ [](\A c \in Procs : status[c] \in {"spawning", "running"} => chan[c] = "open")
    /\ [](\A c \in Procs : chan[c] = "closed" =>
            status[c] \in {"failed", "dropped", "terminated"})
    /\ [](\A p \in Procs : (status[p] = "running" /\ kills < MaxKills) =>
            ENABLED EnvKill(p))
    /\ [](~panicked /\ \A c \in Procs : spc[c] # "panic")
    /\ [][\A c \in Procs :
            (status[c] = "spawning" /\ spc[c] = "resume" /\ spc'[c] # "resume"
                /\ status'[c] = "spawning") =>
                /\ spc'[c] = "spawn"
                /\ mailbox'[c] = Append(mailbox[c], Link(LinkTag(c), LinkProc(c)))]_vars

\* The try_send has succeeded in a spawn whose caller has a Kill queued.
C15_Witness ==
    \E c \in LinkedChildren :
        /\ status[c] = "spawning" /\ spc[c] = "spawn"
        /\ mailbox[c] = <<Link(LinkTag(c), LinkProc(c))>>
        /\ KillPending(LinkProc(c))

(* ------------------------------ C16 ----------------------------------- *)
\* The events of a linked spawn of c, told by what they do.
SendsParentLink(c) ==
    /\ Len(mailbox'[LinkProc(c)]) = Len(mailbox[LinkProc(c)]) + 1
    /\ mailbox'[LinkProc(c)][Len(mailbox'[LinkProc(c)])] = Link(None, c)

SpawnerYields(c) ==
    /\ status[c] = "spawning" /\ status'[c] = "spawning"
    /\ fpc[parent[c]] = "spawn" /\ poll[parent[c]] /\ ~poll'[parent[c]]

SendsChildLink(c) ==
    /\ Len(mailbox'[c]) = Len(mailbox[c]) + 1
    /\ mailbox'[c][Len(mailbox'[c])].type = "Link"

\* What the events leave behind.
ParentLinkSent(c) ==
    \/ c \in LinkedProcs(LinkProc(c))
    \/ \E s \in SignalsOf(LinkProc(c), "Link") : s.proc = c

ChildLinkSent(c) ==
    \/ LinkProc(c) \in LinkedProcs(c)
    \/ SignalsOf(c, "Link") # {}

\* C16: in a linked spawn each of the four events happens after
\* instantiation has succeeded and after the ones before it: the Link signal
\* naming the child is sent once, while nothing else has happened; the
\* spawner yields with that signal in the linked process's mailbox; the
\* child's Link signal is sent once, when the spawner has been resumed after
\* the yield; the task is scheduled with both signals sent.  Nothing is sent
\* and nothing is scheduled while instantiation has not succeeded.
C16_LinkStepsInOrder ==
    /\ [][\A c \in LinkedChildren :
            /\ SendsParentLink(c) =>
                  /\ status[c] = "spawning" /\ initCount[c] = 1
                  /\ poll[parent[c]]
                  /\ ~ParentLinkSent(c) /\ ~ChildLinkSent(c)
            /\ SpawnerYields(c) =>
                  /\ initCount[c] = 1
                  /\ spc[c] = "yield" /\ spc'[c] = "resume"
                  /\ \E s \in SignalsOf(LinkProc(c), "Link") : s.proc = c
                  /\ ~ChildLinkSent(c)
            /\ SendsChildLink(c) =>
                  /\ status[c] = "spawning" /\ initCount[c] = 1
                  /\ spc[c] = "resume" /\ poll[parent[c]]
                  /\ ParentLinkSent(c) /\ ~ChildLinkSent(c)
            /\ Returns(c) =>
                  /\ initCount[c] = 1
                  /\ ParentLinkSent(c)
                  /\ mailbox[c] = <<Link(LinkTag(c), LinkProc(c))>>]_vars
    /\ [](\A c \in LinkedChildren :
            (initCount[c] = 0 \/ spc[c] = "instantiate") =>
                /\ ~ParentLinkSent(c) /\ ~ChildLinkSent(c)
                /\ status[c] # "running" /\ c \notin exposed)

\* A linked spawn has gone through all its steps.
C16_Witness ==
    \E c \in LinkedChildren :
        /\ spc[c] = "done" /\ status[c] = "running" /\ poll[parent[c]]
        /\ mailbox[c] = <<Link(LinkTag(c), LinkProc(c))>>
        /\ c \in LinkedProcs(LinkProc(c)) /\ initCount[c] = 1

(* ------------------------------ C17 ----------------------------------- *)
\* The future of c has been polled: the call has begun.
CallBegun(c) == poll[c] \/ fpc[c] \in {"exec", "inject", "done"} \/ work[c] > 0

\* C17: a linked child is scheduled with its Link signal first in its
\* mailbox; its task records the link, with the caller's tag, before its
\* future is polled for the first time, so before any guest code runs; and
\* when its call fails (trap, out of fuel, entry not found) the linked
\* process, if its channel is open, is sent the LinkDied with the reason and
\* the tag.
C17_ChildLinkedBeforeCode ==
    /\ [][\A c \in LinkedChildren : Returns(c) =>
            mailbox'[c] # <<>> /\ Head(mailbox'[c]) = Link(LinkTag(c), LinkProc(c))]_vars
    /\ [](\A c \in LinkedChildren : (status[c] = "running" /\ CallBegun(c)) =>
            <<LinkProc(c), LinkTag(c)>> \in links[c])
    /\ [](\A c \in LinkedChildren : <<LinkProc(c), LinkTag(c)>> \notin links[c] =>
            work[c] = 0 /\ result[c] = "none")
    /\ [][\A c \in LinkedChildren :
            (Ends(c) /\ poll[c]) =>
                /\ result'[c] \in {"ok", "trap", "oof", "notfound"}
                /\ chan[LinkProc(c)] = "open" =>
                      mailbox'[LinkProc(c)] =
                          Append(mailbox[LinkProc(c)],
                                 LinkDied(c, LinkTag(c), result'[c]))]_vars

\* A child linked with the tag Some(1) ran out of fuel in its guest code and
\* the linked process holds the notice.
C17_Witness ==
    \E c \in LinkedChildren :
        /\ result[c] = "oof" /\ LinkTag(c) = Some(1)
        /\ mailbox[LinkProc(c)] # <<>>
        /\ Head(mailbox[LinkProc(c)]) = LinkDied(c, Some(1), "oof")

(* ------------------------------ C18 ----------------------------------- *)
\* C18: the initialize hook of a Process State is called at most once; it is
\* called in the instantiate call that succeeds, as the instance has been
\* created and before the call of the entry function has begun, and in no
\* other step; a state whose instantiation failed has never been
\* initialized; an instance that exists, and a call that has begun, have an
\* initialized state.
C18_InitializeOnce ==
    /\ [](\A p \in Procs : initCount[p] \in {0, 1})
    /\ [](\A p \in Procs : status[p] = "failed" => initCount[p] = 0)
    /\ [](\A p \in Procs : (HasInstance(p) \/ CallBegun(p)) => initCount[p] = 1)
    /\ [][\A p \in Procs :
            /\ initCount'[p] # initCount[p] =>
                  /\ initCount[p] = 0 /\ initCount'[p] = 1
                  /\ status[p] = "spawning" /\ status'[p] = "spawning"
                  /\ spc[p] = "instantiate" /\ spc'[p] = "link"
                  /\ ~CallBegun(p) /\ ~CallBegun(p)'
            /\ (spc[p] = "instantiate" /\ spc'[p] # "instantiate") =>
                  initCount'[p] = IF status'[p] = "spawning" THEN 1 ELSE 0]_vars

\* A spawn has succeeded, its state was initialized once and its call has
\* run to its end.
C18_Witness ==
    \E c \in Procs :
        parent[c] \in Procs /\ spc[c] = "done" /\ result[c] = "ok" /\ initCount[c] = 1

(* ------------------------------ C19 ----------------------------------- *)
\* c was spawned with an entry name the module does not export.
MissingEntry(c) == parent[c] \in Procs /\ fname[c] \notin Exports

\* C19: a spawn with a missing entry name goes the way of any other: once
\* instantiated it can take its link step, and at line 96 it can schedule
\* the task; it leaves line 96 only by scheduling the task and returning the
\* handle (or by being dropped with its caller), the name not having been
\* looked up; the not-found error comes up only in the scheduled task, in a
\* poll of its future, with no instruction executed and no fuel taken; and
\* under fair scheduling that task ends, not found or killed.
C19_LookupOnlyInTask ==
    /\ [](\A c \in Procs : (MissingEntry(c) /\ status[c] = "spawning") =>
            /\ fpc[c] = "none" /\ result[c] = "none"
            /\ SpawnAt(c, "link") => ENABLED SpawnLinkParent(c)
            /\ SpawnAt(c, "spawn") => ENABLED SpawnTask(c))
    /\ [][\A c \in Procs :
            /\ (MissingEntry(c) /\ spc[c] = "spawn" /\ spc'[c] # "spawn") =>
                  /\ Returns(c) /\ spc'[c] = "done" /\ c \in exposed'
                  /\ fpc'[c] = "lookup" /\ result'[c] = "none"
            /\ (MissingEntry(c) /\ result'[c] # result[c]) =>
                  /\ status[c] = "running" /\ spc[c] = "done"
                  /\ result'[c] \in {"notfound", "killed"}
                  /\ result'[c] = "notfound" => poll[c] /\ fpc[c] = "lookup"
                  /\ work[c] = 0 /\ fuel[c] = 0 /\ mem[c] = module.instance_pre]_vars
    /\ \A c \in Procs :
          (MissingEntry(c) /\ status[c] = "running")
              ~> (result[c] \in {"notfound", "killed"})

\* A linked spawn with a missing entry name was scheduled and returned; its
\* task then failed to find the entry and told the linked process.
C19_Witness ==
    \E c \in LinkedChildren :
        /\ MissingEntry(c) /\ spc[c] = "done" /\ c \in exposed
        /\ result[c] = "notfound"
        /\ \E n \in notes : n.from = c /\ n.to = LinkProc(c) /\ n.reason = "notfound"

=============================================================================
